---------------------------- MODULE Spec2Model ----------------------------
(***************************************************************************)
(* A model of lib/ansible/parsing/vault/__init__.py: the vault container   *)
(* codec (VaultLib), the two ciphers (VaultAES, VaultAES256) and the       *)
(* editor workflow (VaultEditor) over a small file system.                 *)
(*                                                                         *)
(* Byte strings are sequences of integers 0..255.  The cryptographic       *)
(* primitives that the module imports from libraries (PBKDF2, HMAC-SHA256, *)
(* AES, MD5, SHA-256) are replaced by small deterministic stand-ins with   *)
(* the same shapes (output lengths, CTR as an XOR keystream, CBC chaining);*)
(* everything the module itself computes (header formatting and parsing,   *)
(* base64 and hex armour, 80 column wrapping, MAC comparison, padding) is  *)
(* computed as the code computes it.  The module is Python 2 code          *)
(* (str = bytes).                                                          *)
(***************************************************************************)
EXTENDS Integers, Sequences, FiniteSets, TLC

(***************************************************************************)
(* Bounds of the model.                                                    *)
(***************************************************************************)
\* number of VaultEditor operations started in one behaviour
MaxOps == 2
\* longest plaintext fed to VaultLib.encrypt in the library specification
MaxPlainLen == 1
\* most ';'-separated fields of a header line in the header specification
MaxHeaderFields == 5

(***************************************************************************)
(* Bytes and byte strings.                                                 *)
(***************************************************************************)
Min(a, b) == IF a <= b THEN a ELSE b

Max(a, b) == IF a >= b THEN a ELSE b

RECURSIVE BitXor(_, _)
\* x ^ y on non-negative integers
BitXor(a, b) ==
    IF a = 0 THEN b
    ELSE IF b = 0 THEN a
    ELSE ((a + b) % 2) + 2 * BitXor(a \div 2, b \div 2)

RECURSIVE BitOr(_, _)
\* x | y on non-negative integers
BitOr(a, b) ==
    IF a = 0 THEN b
    ELSE IF b = 0 THEN a
    ELSE (IF a % 2 = 1 \/ b % 2 = 1 THEN 1 ELSE 0) + 2 * BitOr(a \div 2, b \div 2)

RECURSIVE SumSeq(_)
SumSeq(s) == IF s = <<>> THEN 0 ELSE (Head(s) + SumSeq(Tail(s))) % 65536

RECURSIVE WSumSeq(_, _)
\* a position-weighted checksum, so that moving or changing a byte changes it
WSumSeq(s, i) ==
    IF s = <<>> THEN 0 ELSE (i * (Head(s) + 1) + WSumSeq(Tail(s), i + 1)) % 65536

\* Python s[i:j] for 0 <= i, 0 <= j
Slice(s, i, j) == SubSeq(s, i + 1, Min(j, Len(s)))

\* Python s[i:]
SliceFrom(s, i) == SubSeq(s, i + 1, Len(s))

\* Python s.startswith(p)
StartsWith(s, p) == Len(s) >= Len(p) /\ SubSeq(s, 1, Len(p)) = p

\* Python s.replace(c, '') for a one byte c
RemoveByte(s, c) == SelectSeq(s, LAMBDA x : x # c)

\* index of the first c in s, 0 when there is none
FirstIndex(s, c) ==
    IF \E i \in 1..Len(s) : s[i] = c
    THEN CHOOSE i \in 1..Len(s) : s[i] = c /\ \A j \in 1..(i - 1) : s[j] # c
    ELSE 0

RECURSIVE Split(_, _)
\* Python s.split(c) for a one byte separator: always at least one field
Split(s, c) ==
    LET i == FirstIndex(s, c)
    IN  IF i = 0 THEN <<s>>
        ELSE <<SubSeq(s, 1, i - 1)>> \o Split(SubSeq(s, i + 1, Len(s)), c)

RECURSIVE SplitMax(_, _, _)
\* Python s.split(c, maxsplit)
SplitMax(s, c, maxsplit) ==
    LET i == FirstIndex(s, c)
    IN  IF i = 0 \/ maxsplit = 0 THEN <<s>>
        ELSE <<SubSeq(s, 1, i - 1)>>
                 \o SplitMax(SubSeq(s, i + 1, Len(s)), c, maxsplit - 1)

\* bytes that Python's str.strip() removes
Whitespace == {9, 10, 11, 12, 13, 32}

\* Python s.strip()
Strip(s) ==
    LET keep == {i \in 1..Len(s) : s[i] \notin Whitespace}
    IN  IF keep = {} THEN <<>>
        ELSE SubSeq(s, CHOOSE i \in keep : \A j \in keep : i <= j,
                       CHOOSE i \in keep : \A j \in keep : i >= j)

RECURSIVE BytesLess(_, _)
\* Python a < b on byte strings
BytesLess(a, b) ==
    IF b = <<>> THEN FALSE
    ELSE IF a = <<>> THEN TRUE
    ELSE IF Head(a) # Head(b) THEN Head(a) < Head(b)
    ELSE BytesLess(Tail(a), Tail(b))

RECURSIVE ListGeq(_, _)
\* Python x >= y on lists of byte strings
ListGeq(x, y) ==
    IF y = <<>> THEN TRUE
    ELSE IF x = <<>> THEN FALSE
    ELSE IF Head(x) # Head(y) THEN BytesLess(Head(y), Head(x))
    ELSE ListGeq(Tail(x), Tail(y))

RECURSIVE Concat(_)
\* b''.join(list)
Concat(l) == IF l = <<>> THEN <<>> ELSE Head(l) \o Concat(Tail(l))

(***************************************************************************)
(* binascii.hexlify / unhexlify and base64.b64encode / b64decode.          *)
(***************************************************************************)
HexDigit(v) == IF v < 10 THEN 48 + v ELSE 87 + v

HexVal(c) ==
    IF c \in 48..57 THEN c - 48
    ELSE IF c \in 97..102 THEN c - 87
    ELSE IF c \in 65..70 THEN c - 55
    ELSE -1

hexlify(s) ==
    [k \in 1..(2 * Len(s)) |->
        IF k % 2 = 1 THEN HexDigit(s[(k + 1) \div 2] \div 16)
        ELSE HexDigit(s[k \div 2] % 16)]

\* unhexlify raises TypeError on odd length or on a non-hex digit
unhexlifyOk(s) == Len(s) % 2 = 0 /\ \A i \in 1..Len(s) : HexVal(s[i]) >= 0

unhexlify(s) ==
    [k \in 1..(Len(s) \div 2) |-> 16 * HexVal(s[2 * k - 1]) + HexVal(s[2 * k])]

\* the base64 alphabet A-Z a-z 0-9 + /
B64Char(v) ==
    IF v < 26 THEN 65 + v
    ELSE IF v < 52 THEN 71 + v
    ELSE IF v < 62 THEN v - 4
    ELSE IF v = 62 THEN 43
    ELSE 47

B64Val(c) ==
    IF c \in 65..90 THEN c - 65
    ELSE IF c \in 97..122 THEN c - 71
    ELSE IF c \in 48..57 THEN c + 4
    ELSE IF c = 43 THEN 62
    ELSE IF c = 47 THEN 63
    ELSE -1

B64Pad == 61

b64encode(s) ==
    LET n == Len(s)
        at(i) == IF i <= n THEN s[i] ELSE 0
        grp(g) == 65536 * at(3 * g + 1) + 256 * at(3 * g + 2) + at(3 * g + 3)
        sext(g, j) == (grp(g) \div (IF j = 0 THEN 262144
                                     ELSE IF j = 1 THEN 4096
                                     ELSE IF j = 2 THEN 64 ELSE 1)) % 64
    IN  [k \in 1..(4 * ((n + 2) \div 3)) |->
            LET g == (k - 1) \div 4
                j == (k - 1) % 4
            IN  IF 3 * g + j > n THEN B64Pad ELSE B64Char(sext(g, j))]

\* binascii.a2b_base64: bytes outside the alphabet are skipped; the six bit
\* values are packed into bytes; bits left over without a closing pad are
\* "Incorrect padding" (padding is taken to stand at the end of the input)
b64digits(s) == SelectSeq(s, LAMBDA c : B64Val(c) >= 0)

b64decodeOk(s) ==
    LET k == Len(b64digits(s))
        npad == Len(SelectSeq(s, LAMBDA c : c = B64Pad))
    IN  \/ k % 4 = 0
        \/ k % 4 = 2 /\ npad >= 2
        \/ k % 4 = 3 /\ npad >= 1

b64decode(s) ==
    LET d == b64digits(s)
        k == Len(d)
        v(i) == IF i <= k THEN B64Val(d[i]) ELSE 0
    IN  [m \in 1..((6 * k) \div 8) |->
            LET g == (m - 1) \div 3
                j == (m - 1) % 3
                a == v(4 * g + 1)
                b == v(4 * g + 2)
                c == v(4 * g + 3)
                e == v(4 * g + 4)
            IN  IF j = 0 THEN 4 * a + b \div 16
                ELSE IF j = 1 THEN 16 * (b % 16) + c \div 4
                ELSE 64 * (c % 4) + e]

(***************************************************************************)
(* Results of calls: a value, None, or a raised exception.                 *)
(***************************************************************************)
Value(v) == [st |-> "value", val |-> v, err |-> "", aes |-> 0]

None == [st |-> "none", val |-> <<>>, err |-> "", aes |-> 0]

Raise(e) == [st |-> "raise", val |-> <<>>, err |-> e, aes |-> 0]

\* the error messages of the module's AnsibleErrors
ErrAlreadyEncrypted == "input is already encrypted"

ErrDecryptionFailed == "Decryption failed"

ErrNotVault == "Input is not an encrypted vault file"

ErrMalformed4 == "Malformed vault header.  Expected 4 fields for vault 1.2"

ErrMalformed3 == "Malformed vault header.  Expected 3 fields for vault 1.1 and below"

ErrUnknownCipher == "Vault file encrypted with unrecognised cipher"

ErrDeprecated == "Encryption disabled for deprecated VaultAES class"

ErrExists == "exists, please use 'edit' instead"

(***************************************************************************)
(* Stand-ins for the imported primitives.  Each keeps the output length of *)
(* the primitive and depends on every byte of its inputs.                  *)
(***************************************************************************)
\* digest sizes of SHA-256 and MD5, and the AES block size (AES.block_size)
SHA256Len == 32

MD5Len == 16

AESBlockSize == 16

PBKDF2(password, salt, dkLen) ==
    LET seed == (31 * WSumSeq(password, 1) + 17 * WSumSeq(salt, 1)) % 65536
    IN  [i \in 1..dkLen |-> (seed + 7 * i * i) % 256]

HMAC_SHA256(key, msg) ==
    LET sum == WSumSeq(msg, 1)
        n == Len(msg)
    IN  [i \in 1..SHA256Len |->
            (key[((i - 1) % Len(key)) + 1] + sum + i * (n + 1)) % 256]

SHA256(data) ==
    LET sum == 3 * WSumSeq(data, 1) + 5 * Len(data)
    IN  [i \in 1..SHA256Len |-> (sum + 29 * i) % 256]

MD5(text) ==
    LET sum == WSumSeq(text, 1) + Len(text)
    IN  [i \in 1..MD5Len |-> (sum + 13 * i) % 256]

\* AES in CTR mode with a 128 bit counter starting at iv (kept as its 16
\* big-endian bytes): data XOR keystream, the same for encrypt and decrypt
AES_CTR(key, iv, data) ==
    LET ctr == SumSeq(iv)
        n == Len(key)
    IN  [i \in 1..Len(data) |->
            BitXor(data[i],
                   (key[((i - 1) % n) + 1] + 5 * ((i - 1) \div AESBlockSize)
                      + 11 * i + ctr) % 256)]

\* the AES block permutation and its inverse, on one 16 byte block
AES_block_encrypt(key, b) ==
    [j \in 1..AESBlockSize |-> (b[j] + key[j] + j) % 256]

AES_block_decrypt(key, b) ==
    [j \in 1..AESBlockSize |-> (b[j] + 512 - key[j] - j) % 256]

XorBlock(a, b) == [j \in 1..AESBlockSize |-> BitXor(a[j], b[j])]

RECURSIVE AES_CBC_decrypt(_, _, _)
\* AES.new(key, MODE_CBC, iv).decrypt(data), data a multiple of the block size
AES_CBC_decrypt(key, prev, data) ==
    IF data = <<>> THEN <<>>
    ELSE LET c == SubSeq(data, 1, AESBlockSize)
         IN  XorBlock(AES_block_decrypt(key, c), prev)
                \o AES_CBC_decrypt(key, c, SliceFrom(data, AESBlockSize))

RECURSIVE AES_CBC_encrypt(_, _, _)
AES_CBC_encrypt(key, prev, data) ==
    IF data = <<>> THEN <<>>
    ELSE LET c == AES_block_encrypt(key, XorBlock(SubSeq(data, 1, AESBlockSize), prev))
         IN  c \o AES_CBC_encrypt(key, c, SliceFrom(data, AESBlockSize))

(***************************************************************************)
(* VaultAES256.                                                            *)
(***************************************************************************)
\* keylength in gen_key_initctr, the salt length of encrypt, the line width
KeyLength == 32

IvLength == 16

SaltLen == 32

LineWidth == 80

VaultAES256_version == <<49, 46, 50>>

\* key1, key2 and iv cut out of derivedkey
keys_of(derivedkey, generate_iv) ==
    [key1 |-> Slice(derivedkey, 0, KeyLength),
     key2 |-> Slice(derivedkey, KeyLength, KeyLength * 2),
     iv |-> IF generate_iv
            THEN Slice(derivedkey, KeyLength * 2, KeyLength * 2 + IvLength)
            ELSE [i \in 1..IvLength |-> 0]]

gen_key_initctr(password, salt, generate_iv) ==
    keys_of(PBKDF2(password, salt,
                   2 * KeyLength + (IF generate_iv THEN IvLength ELSE 0)),
            generate_iv)

RECURSIVE WrapLines(_)
\* [b'%s\n' % message[i:i+80] for i in range(0, len(message), 80)], joined
WrapLines(message) ==
    IF message = <<>> THEN <<>>
    ELSE Slice(message, 0, LineWidth) \o <<10>>
            \o WrapLines(SliceFrom(message, LineWidth))

\* encrypt once the keys are derived (k) and the ciphertext is computed
VaultAES256_armour(salt, k, ciphertext) ==
    Value(WrapLines(b64encode(salt \o HMAC_SHA256(k.key2, ciphertext) \o ciphertext)))

VaultAES256_encrypt_with(plaintext, salt, k) ==
    VaultAES256_armour(salt, k, AES_CTR(k.key1, k.iv, plaintext))

\* salt is the value os.urandom(32) returned
VaultAES256_encrypt(plaintext, password, salt) ==
    VaultAES256_encrypt_with(plaintext, salt, gen_key_initctr(password, salt, FALSE))

RECURSIVE XorAccumulate(_, _)
\* result |= ord(x) ^ ord(y) over zip(a, b)
XorAccumulate(a, b) ==
    IF a = <<>> \/ b = <<>> THEN 0
    ELSE BitOr(BitXor(Head(a), Head(b)), XorAccumulate(Tail(a), Tail(b)))

is_equal(a, b) ==
    IF Len(a) # Len(b) THEN FALSE ELSE XorAccumulate(a, b) = 0

\* plaintext[:-padding_length]
StripPadding(plaintext) ==
    LET padding_length == plaintext[Len(plaintext)]
    IN  IF padding_length = 0 THEN <<>>
        ELSE SubSeq(plaintext, 1, Len(plaintext) - padding_length)

\* the end of decrypt: plaintext is what cipher.decrypt returned, and the
\* result records (aes = 1) that AES was run
VaultAES256_unpad(plaintext, is11) ==
    IF is11
    THEN IF plaintext = <<>> THEN Raise("IndexError")
         ELSE [Value(StripPadding(plaintext)) EXCEPT !.aes = 1]
    ELSE [Value(plaintext) EXCEPT !.aes = 1]

\* a decrypt that does not compare the macs
check_mac_skipped(k, mac, ciphertext, is11) ==
    VaultAES256_unpad(AES_CTR(k.key1, k.iv, ciphertext), is11)

\* decrypt from "EXIT EARLY IF MAC DOESN'T VALIDATE" on, k the derived keys
VaultAES256_check_mac(k, mac, ciphertext, is11) ==
    IF ~is_equal(mac, HMAC_SHA256(k.key2, ciphertext)) THEN None
    ELSE VaultAES256_unpad(AES_CTR(k.key1, k.iv, ciphertext), is11)

\* the part of decrypt after the message is taken apart
VaultAES256_check_and_decrypt(salt, mac, ciphertext, password, is11) ==
    VaultAES256_check_mac(gen_key_initctr(password, salt, is11), mac, ciphertext, is11)

\* the 1.1 branch, parts being message.split(b'\n', 2)
VaultAES256_decrypt_11(parts, password) ==
    IF Len(parts) # 3 THEN Raise("ValueError")
    ELSE IF \E i \in 1..3 : ~unhexlifyOk(parts[i]) THEN Raise("TypeError")
    ELSE VaultAES256_check_and_decrypt(unhexlify(parts[1]), unhexlify(parts[2]),
                                       unhexlify(parts[3]), password, TRUE)

\* a decrypt that takes the mac to be 31 bytes long
decrypt_12_short_mac(m, password) ==
    VaultAES256_check_and_decrypt(Slice(m, 0, 32), Slice(m, 32, 63),
                                  SliceFrom(m, 63), password, FALSE)

\* the other branch, m being base64.b64decode(message)
VaultAES256_decrypt_12(m, password) ==
    VaultAES256_check_and_decrypt(Slice(m, 0, 32), Slice(m, 32, 64),
                                  SliceFrom(m, 64), password, FALSE)

\* decrypt after message = message.replace(b'\n', '')
VaultAES256_decrypt_message(message, password, version) ==
    IF version = <<49, 46, 49>>
    THEN IF ~unhexlifyOk(message) THEN Raise("TypeError")
         ELSE VaultAES256_decrypt_11(SplitMax(unhexlify(message), 10, 2), password)
    ELSE IF ~b64decodeOk(message) THEN Raise("TypeError")
         ELSE VaultAES256_decrypt_12(b64decode(message), password)

VaultAES256_decrypt(message, password, version) ==
    VaultAES256_decrypt_message(RemoveByte(message, 10), password, version)

(***************************************************************************)
(* VaultAES (obsolete, decrypt only).                                      *)
(***************************************************************************)
VaultAES_version == <<49, 46, 49>>

\* b'Salted__'
b_Salted == <<83, 97, 108, 116, 101, 100, 95, 95>>

\* the chunk the decrypt loop reads: 1024 * bs
ChunkBlocks == 1024

RECURSIVE DeriveLoop(_, _, _, _, _)
DeriveLoop(d, d_i, password, salt, n) ==
    IF Len(d) >= n THEN d
    ELSE DeriveLoop(d \o MD5(d_i \o password \o salt),
                    MD5(d_i \o password \o salt), password, salt, n)

\* key = d[:key_length], iv = d[key_length:key_length+iv_length]
aes_key_and_iv_of(d, key_length, iv_length) ==
    [key |-> Slice(d, 0, key_length),
     iv |-> Slice(d, key_length, key_length + iv_length)]

aes_derive_key_and_iv(password, salt, key_length, iv_length) ==
    aes_key_and_iv_of(DeriveLoop(<<>>, <<>>, password, salt, key_length + iv_length),
                      key_length, iv_length)

VaultAES_encrypt(data, password) == Raise(ErrDeprecated)

RECURSIVE VaultAES_loop(_, _, _, _, _)
\* the while loop of decrypt: rest is what in_file still holds, prev the
\* cipher's chaining block, next_chunk the look-ahead, out the out_file
VaultAES_loop(key, rest, prev, next_chunk, out) ==
    IF rest = <<>>
    THEN IF next_chunk = <<>> THEN Raise("IndexError")
         ELSE Value(out \o StripPadding(next_chunk))
    ELSE VaultAES_loop(key, SliceFrom(rest, ChunkBlocks * AESBlockSize),
                       SubSeq(rest, Min(Len(rest), ChunkBlocks * AESBlockSize)
                                        - AESBlockSize + 1,
                              Min(Len(rest), ChunkBlocks * AESBlockSize)),
                       AES_CBC_decrypt(key, prev,
                                       Slice(rest, 0, ChunkBlocks * AESBlockSize)),
                       out \o next_chunk)

\* "split out sha and verify decryption", split_data = out_data.split(b"\n", 1)
VaultAES_verify(split_data) ==
    IF Len(split_data) < 2 THEN Raise("IndexError")
    ELSE IF split_data[1] # hexlify(SHA256(split_data[2]))
    THEN Raise(ErrDecryptionFailed)
    ELSE [Value(split_data[2]) EXCEPT !.aes = 1]

\* r is what the while loop left in out_file (or the exception it raised)
VaultAES_after_loop(r) ==
    IF r.st # "value" THEN r ELSE VaultAES_verify(SplitMax(r.val, 10, 1))

\* decrypt with the key and iv derived (k), body what follows the salt block
VaultAES_decrypt_body(k, body) ==
    IF Len(body) % AESBlockSize # 0 THEN Raise("ValueError")
    ELSE VaultAES_after_loop(VaultAES_loop(k.key, body, k.iv, <<>>, <<>>))

\* decrypt after data = unhexlify(data.replace(b'\n', ''))
VaultAES_decrypt_data(data, password, key_length) ==
    VaultAES_decrypt_body(
        aes_derive_key_and_iv(password,
                              SliceFrom(Slice(data, 0, AESBlockSize), Len(b_Salted)),
                              key_length, AESBlockSize),
        SliceFrom(data, AESBlockSize))

VaultAES_decrypt_hex(hex, password, key_length) ==
    IF ~unhexlifyOk(hex) THEN Raise("TypeError")
    ELSE VaultAES_decrypt_data(unhexlify(hex), password, key_length)

VaultAES_decrypt(data, password, key_length) ==
    VaultAES_decrypt_hex(RemoveByte(data, 10), password, key_length)

(***************************************************************************)
(* VaultLib: the container codec and the facade.                           *)
(***************************************************************************)
\* b'$ANSIBLE_VAULT'
b_HEADER == <<36, 65, 78, 83, 73, 66, 76, 69, 95, 86, 65, 85, 76, 84>>

b_AES == <<65, 69, 83>>

b_AES256 == <<65, 69, 83, 50, 53, 54>>

CIPHER_WHITELIST == {b_AES, b_AES256}

CIPHER_WRITE_WHITELIST == {b_AES256}

DEFAULT_WRITE_CIPHER == b_AES256

\* the keys of CIPHER_MAPPING
CIPHER_MAPPING == {b_AES, b_AES256}

\* a cipher_name argument that is None (or empty: "not b_cipher_name")
NoCipherName == <<>>

\* a password that is None
NoPassword == <<-1>>

is_encrypted(data) == StartsWith(data, b_HEADER)

\* the version attribute of the cipher class CIPHER_MAPPING[name]
CipherVersion(name) ==
    IF name = b_AES THEN VaultAES_version ELSE VaultAES256_version

\* cipher.encrypt(b_plaintext, self.b_password) of the class CIPHER_MAPPING[name]
CipherEncrypt(name, plaintext, password, salt) ==
    IF name = b_AES THEN VaultAES_encrypt(plaintext, password)
    ELSE VaultAES256_encrypt(plaintext, password, salt)

\* cipher.decrypt(b_ciphertext, self.b_password, version=b_cipher_version)
CipherDecrypt(name, ciphertext, password, version) ==
    IF name = b_AES THEN VaultAES_decrypt(ciphertext, password, KeyLength)
    ELSE VaultAES256_decrypt(ciphertext, password, version)

\* b'%s;%s;%s;%s\n%s' with b_vault_version = b'1.2'
add_vault_header(b_cipher_name, b_cipher_version, b_ciphertext) ==
    b_HEADER \o <<59>> \o <<49, 46, 50>> \o <<59>> \o b_cipher_name \o <<59>>
        \o b_cipher_version \o <<10>> \o b_ciphertext

\* _parse_vault_header with lines = b_data.split(b'\n', 1) and
\* header = lines[0].strip().split(b';'); the result's val is
\* <<vault_version, cipher_name, cipher_version, data, hasdata>>, hasdata
\* telling whether data is a byte string (FALSE: it is None)
parse_header_fields(lines, header) ==
    IF Len(header) >= 3 /\ header[1] = b_HEADER
    THEN IF ListGeq(Split(Strip(header[2]), 46), << <<49>>, <<50>> >>)
         THEN IF Len(header) # 4 THEN Raise(ErrMalformed4)
              ELSE Value(<<Strip(header[2]), Strip(header[3]), Strip(header[4]),
                           IF Len(lines) > 1 THEN lines[2] ELSE <<>>,
                           Len(lines) > 1>>)
         ELSE IF Len(header) = 3
         THEN Value(<<Strip(header[2]), Strip(header[3]), Strip(header[2]),
                      IF Len(lines) > 1 THEN lines[2] ELSE <<>>,
                      Len(lines) > 1>>)
         ELSE Raise(ErrMalformed3)
    ELSE Raise(ErrNotVault)

parse_header_lines(lines) == parse_header_fields(lines, Split(Strip(lines[1]), 59))

parse_vault_header(data) == parse_header_lines(SplitMax(data, 10, 1))

\* an encrypt that accepts every cipher that can be read
write_cipher_name_readable(cipher_name) ==
    IF cipher_name = NoCipherName \/ cipher_name \notin CIPHER_WHITELIST
    THEN DEFAULT_WRITE_CIPHER
    ELSE cipher_name

\* the cipher name encrypt goes on with
write_cipher_name(cipher_name) ==
    IF cipher_name = NoCipherName \/ cipher_name \notin CIPHER_WRITE_WHITELIST
    THEN DEFAULT_WRITE_CIPHER
    ELSE cipher_name

\* encrypt from the cipher's result r on; the result also names the cipher
\* class whose encrypt ran (<<>> when none did)
encrypt_add_header(b_cipher_name, r) ==
    IF r.st # "value"
    THEN [st |-> r.st, val |-> <<>>, err |-> r.err, cipher |-> b_cipher_name]
    ELSE [st |-> "value",
          val |-> add_vault_header(b_cipher_name, CipherVersion(b_cipher_name), r.val),
          err |-> "", cipher |-> b_cipher_name]

encrypt_with_cipher(data, b_cipher_name, b_password, salt) ==
    encrypt_add_header(b_cipher_name,
                       CipherEncrypt(b_cipher_name, data, b_password, salt))

VaultLib_encrypt(data, cipher_name, b_password, salt) ==
    IF is_encrypted(data)
    THEN [st |-> "raise", val |-> <<>>, err |-> ErrAlreadyEncrypted, cipher |-> <<>>]
    ELSE encrypt_with_cipher(data, write_cipher_name(cipher_name), b_password, salt)

\* decrypt from the cipher's result r on, h the parsed header; a value is
\* <<vault_version, cipher_name, cipher_version, plaintext>>, and aes tells
\* whether the cipher ran AES
decrypt_result(h, r) ==
    IF r.st = "raise" THEN r
    ELSE IF r.st = "none" THEN [Raise(ErrDecryptionFailed) EXCEPT !.aes = r.aes]
    ELSE [Value(<<h.val[1], h.val[2], h.val[3], r.val>>) EXCEPT !.aes = r.aes]

\* decrypt from the parsed header h on
decrypt_parsed(h, b_password) ==
    IF h.st # "value" THEN h
    ELSE IF h.val[2] \notin CIPHER_WHITELIST THEN Raise(ErrUnknownCipher)
    ELSE IF ~h.val[5] THEN Raise("AttributeError")
    ELSE decrypt_result(h, CipherDecrypt(h.val[2], h.val[4], b_password, h.val[3]))

VaultLib_decrypt(data, b_password) ==
    IF b_password = NoPassword
    THEN Raise("A vault password must be specified to decrypt data")
    ELSE decrypt_parsed(parse_vault_header(data), b_password)

(***************************************************************************)
(* Vault files written by earlier releases, which the code must read: the  *)
(* inverse of VaultAES.decrypt and of the 1.1 branch of VaultAES256.decrypt*)
(***************************************************************************)
\* pad to a multiple of the block size, each pad byte the pad length
Pkcs7Pad(data) ==
    LET n == AESBlockSize - (Len(data) % AESBlockSize)
    IN  data \o [i \in 1..n |-> n]

LegacyAESBlob_with(plaintext, salt8, k) ==
    b_HEADER \o <<59>> \o <<49, 46, 49>> \o <<59>> \o b_AES \o <<10>>
        \o WrapLines(hexlify(
               b_Salted \o salt8
                   \o AES_CBC_encrypt(k.key, k.iv,
                          Pkcs7Pad(hexlify(SHA256(plaintext)) \o <<10>> \o plaintext))))

LegacyAESBlob(plaintext, password, salt8) ==
    LegacyAESBlob_with(plaintext, salt8,
                       aes_derive_key_and_iv(password, salt8, KeyLength, AESBlockSize))

LegacyAES256Blob_armour(salt, k, ciphertext) ==
    b_HEADER \o <<59>> \o <<49, 46, 49>> \o <<59>> \o b_AES256 \o <<10>>
        \o WrapLines(hexlify(hexlify(salt) \o <<10>>
                                 \o hexlify(HMAC_SHA256(k.key2, ciphertext)) \o <<10>>
                                 \o hexlify(ciphertext)))

LegacyAES256Blob_with(plaintext, salt, k) ==
    LegacyAES256Blob_armour(salt, k, AES_CTR(k.key1, k.iv, Pkcs7Pad(plaintext)))

LegacyAES256Blob(plaintext, password, salt) ==
    LegacyAES256Blob_with(plaintext, salt, gen_key_initctr(password, salt, TRUE))

(***************************************************************************)
(* The file system and the process that VaultEditor runs in.               *)
(***************************************************************************)
VARIABLES
    fs,     \* path -> file (exists, data, mode, uid, gid)
    euid,   \* effective uid (and gid) of the process
    pc,     \* "idle", or where the running create_file / edit_file stands
    ctx,    \* the locals of the running create_file / edit_file
    last,   \* what the last finished VaultEditor call did
    nops,   \* VaultEditor calls started so far
    lib     \* the VaultLib calls of the library specification

vars == <<fs, euid, pc, ctx, last, nops, lib>>

\* the paths tempfile.mkstemp() hands out, in this order
TmpPaths == <<"tmp1", "tmp2", "tmp3", "tmp4">>

Paths == {"target", "out"} \cup {TmpPaths[i] : i \in 1..Len(TmpPaths)}

NoFile == [exists |-> FALSE, data |-> <<>>, mode |-> 0, uid |-> 0, gid |-> 0]

\* 0666 & ~umask with umask 022, for a file that open(path, "wb") creates
CreateMode == 420

\* 0600, the mode tempfile.mkstemp() creates with
MkstempMode == 384

\* what os.urandom() fills in (every byte of it)
RandomByte == 170

\* 1024*1024*2 in _shred_file_custom
MaxChunkLen == 2097152

\* passes in _shred_file_custom
ShredPasses == 3

NewFile(data, mode) ==
    [exists |-> TRUE, data |-> data, mode |-> mode, uid |-> euid, gid |-> euid]

isfile(f, path) == f[path].exists

remove(f, path) == [f EXCEPT ![path] = NoFile]

\* with open(path, "wb") as fh: fh.write(data)
open_wb_write(f, path, data) ==
    IF f[path].exists THEN [f EXCEPT ![path].data = data]
    ELSE [f EXCEPT ![path] = NewFile(data, CreateMode)]

\* what the environment decides while a file is shredded: the exit status
\* of the shred utility (1 also when it is absent) and the chunk length each
\* pass of the custom shred draws ("lo" = max_chunk_len // 2, "hi" = max_chunk_len)
ShredEnv ==
    {[r |-> 0, picks |-> [i \in 1..ShredPasses |-> "hi"]]}
        \cup {[r |-> 1, picks |-> p] : p \in [1..ShredPasses -> {"lo", "hi"}]}

RECURSIVE ShredPassLoop(_, _, _, _, _)
\* the passes i..3 of the custom shred over a file holding data
ShredPassLoop(data, file_len, max_chunk_len, picks, i) ==
    IF i > ShredPasses THEN [data |-> data, raised |-> ""]
    ELSE LET chunk_len == IF picks[i] = "lo" THEN max_chunk_len \div 2
                          ELSE max_chunk_len
             tell == (file_len \div chunk_len) * chunk_len
                         + Min(file_len % chunk_len, chunk_len)
             written == [k \in 1..Max(tell, Len(data)) |->
                            IF k <= tell THEN RandomByte ELSE data[k]]
         IN  IF chunk_len = 0 THEN [data |-> data, raised |-> "ZeroDivisionError"]
             ELSE IF tell # file_len
             THEN [data |-> written, raised |-> "AssertionError"]
             ELSE ShredPassLoop(written, file_len, max_chunk_len, picks, i + 1)

\* returns the file system and the exception raised ("" for none)
\* the file system once the passes have left r of the file
shred_written(f, tmp_path, r) ==
    [fs |-> [f EXCEPT ![tmp_path].data = r.data], raised |-> r.raised]

shred_file_custom(f, tmp_path, picks) ==
    IF Len(f[tmp_path].data) > 0
    THEN shred_written(f, tmp_path,
                       ShredPassLoop(<<>>, Len(f[tmp_path].data),
                                     Min(MaxChunkLen, Len(f[tmp_path].data)),
                                     picks, 1))
    ELSE [fs |-> f, raised |-> ""]

\* os.remove(path) unless c, what went before, raised
remove_after(c, path) ==
    IF c.raised # "" THEN c ELSE [fs |-> remove(c.fs, path), raised |-> ""]

shred_file(f, tmp_path, sh) ==
    IF ~isfile(f, tmp_path) THEN [fs |-> f, raised |-> ""]
    ELSE remove_after(IF sh.r # 0 THEN shred_file_custom(f, tmp_path, sh.picks)
                      ELSE [fs |-> f, raised |-> ""],
                      tmp_path)

\* str() of the tuple VaultLib.decrypt returns, which is what to_bytes makes
\* of an object that is not a string: ('1.2', 'AES256', '1.2', 'hi\n')
PyRepr(b) ==
    <<39>> \o Concat([i \in 1..Len(b) |->
                         IF b[i] = 10 THEN <<92, 110>>
                         ELSE IF b[i] = 39 THEN <<92, 39>>
                         ELSE IF b[i] = 92 THEN <<92, 92>>
                         ELSE <<b[i]>>]) \o <<39>>

to_bytes_tuple(t) ==
    <<40>> \o PyRepr(t[1]) \o <<44, 32>> \o PyRepr(t[2]) \o <<44, 32>>
        \o PyRepr(t[3]) \o <<44, 32>> \o PyRepr(t[4]) \o <<41>>

\* read_data: the data, or AnsibleError(str(IOError))
read_data(f, filename) ==
    IF isfile(f, filename) THEN Value(f[filename].data) ELSE Raise("IOError")

\* write_data for a filename other than '-'; bytes is to_bytes(data)
\* with open(filename, "wb") ... unless c, what went before, raised
write_after(c, filename, bytes) ==
    IF c.raised # "" THEN c
    ELSE [fs |-> open_wb_write(c.fs, filename, bytes), raised |-> ""]

write_data(f, bytes, filename, shred, sh) ==
    write_after(IF isfile(f, filename)
                THEN IF shred THEN shred_file(f, filename, sh)
                     ELSE [fs |-> remove(f, filename), raised |-> ""]
                ELSE [fs |-> f, raised |-> ""],
                filename, bytes)

\* tempfile.mkstemp(): the first path not in use
mkstemp_path(f) ==
    TmpPaths[CHOOSE i \in 1..Len(TmpPaths) :
                 ~f[TmpPaths[i]].exists /\ \A j \in 1..(i - 1) : f[TmpPaths[j]].exists]

(***************************************************************************)
(* Inputs of the editor specification.                                     *)
(***************************************************************************)
\* the password the VaultEditor is built with, and another one
EditorPassword == <<113>>

OtherPassword == <<114>>

Passwords == {EditorPassword, OtherPassword}

\* the cipher argument the VaultEditor is built with (None, or the legacy name)
EditorCiphers == {NoCipherName, b_AES}

\* values of os.urandom(32): SaltA is the salt of the vault files that exist
\* at the start, Salts are the values drawn while the model runs
SaltA == [i \in 1..SaltLen |-> 1]

SaltB == [i \in 1..SaltLen |-> (3 * i) % 256]

Salts == {SaltB}

\* the salt of a legacy AES file
Salt8 == [i \in 1..8 |-> 7]

\* plaintexts that the vault files of the initial states hold
FilePlaintexts == {<<>>, <<104>>}

\* what the editor may write to the temp file: nothing, one byte, and a text
\* that starts with the vault header
EditorTexts == {<<>>, <<105>>, b_HEADER \o <<10>>}

\* what the editor does to the temp file before it exits
EditorChoices ==
    {[kind |-> "same", data |-> <<>>], [kind |-> "deleted", data |-> <<>>]}
        \cup {[kind |-> "write", data |-> t] : t \in EditorTexts}

\* a shred environment for calls that shred nothing
NoShred == [r |-> 0, picks |-> [i \in 1..ShredPasses |-> "hi"]]

NoCtx ==
    [op |-> "", filename |-> "", tmp_path |-> "", has_existing |-> FALSE,
     existing_data |-> <<>>, force_save |-> FALSE, cipher_in |-> <<>>,
     tmpdata |-> <<>>, prev |-> NoFile, pre |-> [p \in Paths |-> NoFile]]

\* the record of a finished call: op and its arguments, how it ended (st is
\* "ok" or "raise"), the file system before it (pre), the temp file it
\* allocated (tmp), the plaintext it decrypted (plain, when hasplain), the
\* cipher the file's header named (cipher_in), what the editor left in the
\* temp file (tmpdata, when edited), and the new password of a rekey
NoLast ==
    [op |-> "", st |-> "", err |-> "", filename |-> "", dest |-> "", tmp |-> "",
     pre |-> [p \in Paths |-> NoFile], hasplain |-> FALSE, plain |-> <<>>,
     cipher_in |-> <<>>, edited |-> FALSE, tmpdata |-> <<>>, newpw |-> <<>>]

\* the VaultLib calls made so far: encrypt(data, cipher_name) of a VaultLib
\* built with password returned or raised enc; blob is what decrypt is given
\* (legacy: a file of an earlier release; tampered: a byte of it was
\* altered), decpw the password of the VaultLib that decrypts, dec its result
NoLib ==
    [phase |-> "", data |-> <<>>, password |-> <<>>, cipher_name |-> <<>>,
     enc |-> [st |-> "", val |-> <<>>, err |-> "", cipher |-> <<>>],
     blob |-> <<>>, legacy |-> FALSE, tampered |-> FALSE,
     dec |-> None, decpw |-> <<>>]

\* the owners a file that the process can rewrite may have
InitOwners(e) == IF e = 0 THEN {0, 1000} ELSE {e}

\* what the target holds at the start: nothing, a plaintext, or a vault file
\* written under one of the passwords with the current or the legacy cipher
InitContents ==
    FilePlaintexts
        \cup {VaultLib_encrypt(t, NoCipherName, q, SaltA).val :
                 t \in FilePlaintexts, q \in Passwords}
        \cup {LegacyAESBlob(t, EditorPassword, Salt8) : t \in FilePlaintexts}

Init ==
    /\ euid \in {0, 1000}
    /\ \E t \in {NoFile} \cup
                {[exists |-> TRUE, data |-> d, mode |-> m, uid |-> u, gid |-> u] :
                    d \in InitContents, m \in {MkstempMode, CreateMode},
                    u \in InitOwners(euid)} :
           fs = [p \in Paths |-> IF p = "target" THEN t ELSE NoFile]
    /\ pc = "idle"
    /\ ctx = NoCtx
    /\ last = NoLast
    /\ nops = 0
    /\ lib = NoLib

(***************************************************************************)
(* VaultEditor.                                                            *)
(***************************************************************************)
\* the call ends: f is the file system it leaves, l its record
Finish(f, l) ==
    /\ fs' = f
    /\ last' = l
    /\ pc' = "idle"
    /\ ctx' = NoCtx

\* the record of a VaultEditor call that is about to run
StartLast(op, filename, dest) ==
    [NoLast EXCEPT !.op = op, !.filename = filename, !.dest = dest, !.pre = fs]

\* a call ends by raising err, leaving the file system f
FinishRaise(f, l, err) == Finish(f, [l EXCEPT !.st = "raise", !.err = err])

\* a call returns, leaving the file system f
FinishOk(f, l) == Finish(f, [l EXCEPT !.st = "ok"])

\* the call ends with what write_data (w) did
FinishWrite(w, l) ==
    IF w.raised # "" THEN FinishRaise(w.fs, l, w.raised) ELSE FinishOk(w.fs, l)

encrypt_file(filename, output_file) ==
    /\ pc = "idle"
    /\ nops < MaxOps
    /\ nops' = nops + 1
    /\ UNCHANGED <<euid, lib>>
    /\ \E dest \in {IF output_file # "" THEN output_file ELSE filename} :
       \E l \in {StartLast("encrypt_file", filename, dest)} :
       \E plaintext \in {read_data(fs, filename)} :
         IF plaintext.st # "value" THEN FinishRaise(fs, l, plaintext.err)
         ELSE \E cipher \in EditorCiphers, salt \in Salts :
              \E ciphertext \in {VaultLib_encrypt(plaintext.val, cipher,
                                                  EditorPassword, salt)} :
                IF ciphertext.st # "value" THEN FinishRaise(fs, l, ciphertext.err)
                ELSE \E sh \in ShredEnv :
                       FinishWrite(write_data(fs, ciphertext.val, dest, TRUE, sh), l)

decrypt_file(filename, output_file) ==
    /\ pc = "idle"
    /\ nops < MaxOps
    /\ nops' = nops + 1
    /\ UNCHANGED <<euid, lib>>
    /\ \E dest \in {IF output_file # "" THEN output_file ELSE filename} :
       \E l \in {StartLast("decrypt_file", filename, dest)} :
       \E ciphertext \in {read_data(fs, filename)} :
         IF ciphertext.st # "value" THEN FinishRaise(fs, l, ciphertext.err)
         ELSE \E plaintext \in {VaultLib_decrypt(ciphertext.val, EditorPassword)} :
                IF plaintext.st # "value" THEN FinishRaise(fs, l, plaintext.err)
                ELSE FinishWrite(write_data(fs, to_bytes_tuple(plaintext.val), dest,
                                            FALSE, NoShred),
                                 [l EXCEPT !.hasplain = TRUE,
                                           !.plain = plaintext.val[4],
                                           !.cipher_in = plaintext.val[2]])

\* _edit_file_helper from the temp file's creation (f1 is the file system
\* with the new temp file) to the point where the editor runs
edit_file_helper_write(op, filename, has_existing, existing_data, force_save, cipher_in, tmp_path, f1) ==
    /\ fs' = IF has_existing /\ existing_data # <<>>
             THEN write_data(f1, existing_data, tmp_path, FALSE, NoShred).fs
             ELSE f1
    /\ pc' = "editor"
    /\ ctx' = [NoCtx EXCEPT !.op = op, !.filename = filename,
                            !.tmp_path = tmp_path,
                            !.has_existing = has_existing,
                            !.existing_data = existing_data,
                            !.force_save = force_save,
                            !.cipher_in = cipher_in, !.pre = fs]
    /\ UNCHANGED last

\* _edit_file_helper up to the point where the editor runs
edit_file_helper_begin(op, filename, has_existing, existing_data, force_save, cipher_in) ==
    \E tmp_path \in {mkstemp_path(fs)} :
      edit_file_helper_write(op, filename, has_existing, existing_data, force_save,
                             cipher_in, tmp_path,
                             [fs EXCEPT ![tmp_path] = NewFile(<<>>, MkstempMode)])

create_file(filename) ==
    /\ pc = "idle"
    /\ nops < MaxOps
    /\ nops' = nops + 1
    /\ UNCHANGED <<euid, lib>>
    /\ IF isfile(fs, filename)
       THEN FinishRaise(fs, StartLast("create_file", filename, filename), ErrExists)
       ELSE edit_file_helper_begin("create_file", filename, FALSE, <<>>, FALSE, <<>>)

edit_file(filename) ==
    /\ pc = "idle"
    /\ nops < MaxOps
    /\ nops' = nops + 1
    /\ UNCHANGED <<euid, lib>>
    /\ \E l \in {StartLast("edit_file", filename, filename)} :
       \E b_ciphertext \in {read_data(fs, filename)} :
         IF b_ciphertext.st # "value" THEN FinishRaise(fs, l, b_ciphertext.err)
         ELSE \E d \in {VaultLib_decrypt(b_ciphertext.val, EditorPassword)} :
                IF d.st # "value" THEN FinishRaise(fs, l, d.err)
                ELSE edit_file_helper_begin("edit_file", filename, TRUE, d.val[4],
                                            d.val[2] \notin CIPHER_WRITE_WHITELIST,
                                            d.val[2])

\* the record of the running create_file / edit_file when it ends
HelperLast ==
    [NoLast EXCEPT !.op = ctx.op, !.filename = ctx.filename, !.dest = ctx.filename,
                   !.tmp = ctx.tmp_path, !.pre = ctx.pre,
                   !.hasplain = ctx.has_existing, !.plain = ctx.existing_data,
                   !.cipher_in = ctx.cipher_in]

\* call() raises (the editor cannot be launched, or the wait is interrupted)
editor_raises ==
    /\ pc = "editor"
    /\ UNCHANGED <<euid, lib, nops>>
    /\ \E sh \in ShredEnv :
       \E s \in {shred_file(fs, ctx.tmp_path, sh)} :
         FinishRaise(s.fs, HelperLast, IF s.raised # "" THEN s.raised ELSE "OSError")

\* what the editor leaves of the file system
editor_effect(f, tmp_path, choice) ==
    IF choice.kind = "same" THEN f
    ELSE IF choice.kind = "deleted" THEN remove(f, tmp_path)
    ELSE [f EXCEPT ![tmp_path].data = choice.data]

\* _edit_file_helper once write_data(enc_data, tmp_path) has run (w)
helper_after_write(w, l, tmpdata) ==
    IF w.raised # "" THEN FinishRaise(w.fs, l, w.raised)
    ELSE /\ fs' = w.fs
         /\ pc' = "shuffle_files"
         /\ ctx' = [ctx EXCEPT !.tmpdata = tmpdata]
         /\ UNCHANGED last

\* the editor exits, having done choice to the temp file, and
\* _edit_file_helper goes on up to the call of shuffle_files
editor_returns(choice) ==
    /\ pc = "editor"
    /\ UNCHANGED <<euid, lib, nops>>
    /\ \E tmp_path \in {ctx.tmp_path} :
       \E f1 \in {editor_effect(fs, tmp_path, choice)} :
       \E tmpdata \in {read_data(f1, tmp_path)} :
         IF tmpdata.st # "value" THEN FinishRaise(f1, HelperLast, tmpdata.err)
         ELSE \E l \in {[HelperLast EXCEPT !.edited = TRUE, !.tmpdata = tmpdata.val]} :
           IF ctx.has_existing /\ ctx.existing_data = tmpdata.val /\ ~ctx.force_save
           THEN \E sh \in ShredEnv :
                \E s \in {shred_file(f1, tmp_path, sh)} :
                  IF s.raised # "" THEN FinishRaise(s.fs, l, s.raised)
                  ELSE FinishOk(s.fs, l)
           ELSE \E cipher \in EditorCiphers, salt \in Salts :
                \E enc_data \in {VaultLib_encrypt(tmpdata.val, cipher,
                                                  EditorPassword, salt)} :
                  IF enc_data.st # "value" THEN FinishRaise(f1, l, enc_data.err)
                  ELSE \E sh \in ShredEnv :
                         helper_after_write(
                             write_data(f1, enc_data.val, tmp_path, TRUE, sh),
                             l, tmpdata.val)

\* shuffle_files(src, dest), one system call after the other
shuffle_remove ==
    /\ pc = "shuffle_files"
    /\ UNCHANGED <<euid, lib, nops, last>>
    /\ pc' = "shuffle_move"
    /\ IF isfile(fs, ctx.filename)
       THEN /\ ctx' = [ctx EXCEPT !.prev = fs[ctx.filename]]
            /\ fs' = remove(fs, ctx.filename)
       ELSE UNCHANGED <<ctx, fs>>

shuffle_move ==
    /\ pc = "shuffle_move"
    /\ UNCHANGED <<euid, lib, nops, last, ctx>>
    /\ pc' = "shuffle_perm"
    /\ fs' = [fs EXCEPT ![ctx.filename] = fs[ctx.tmp_path], ![ctx.tmp_path] = NoFile]

\* os.chmod(path, prev.st_mode); os.chown(path, prev.st_uid, prev.st_gid)
chmod_chown(f, path, prev) ==
    [f EXCEPT ![path].mode = prev.mode, ![path].uid = prev.uid, ![path].gid = prev.gid]

shuffle_perm ==
    /\ pc = "shuffle_perm"
    /\ UNCHANGED <<euid, lib, nops>>
    /\ FinishOk(IF ctx.prev.exists THEN chmod_chown(fs, ctx.filename, ctx.prev) ELSE fs,
                [HelperLast EXCEPT !.edited = TRUE, !.tmpdata = ctx.tmpdata])

\* a rekey_file that does not restore mode and owner
rekey_after_write_plain(w, l, filename, prev) == FinishWrite(w, l)

\* rekey_file once write_data(new_ciphertext, filename) has run (w)
rekey_after_write(w, l, filename, prev) ==
    IF w.raised # "" THEN FinishRaise(w.fs, l, w.raised)
    ELSE FinishOk(chmod_chown(w.fs, filename, prev), l)

rekey_file(filename, new_password) ==
    /\ pc = "idle"
    /\ nops < MaxOps
    /\ nops' = nops + 1
    /\ UNCHANGED <<euid, lib>>
    /\ \E l \in {[StartLast("rekey_file", filename, filename)
                     EXCEPT !.newpw = new_password]} :
         IF ~isfile(fs, filename) THEN FinishRaise(fs, l, "OSError")
         ELSE \E d \in {VaultLib_decrypt(read_data(fs, filename).val, EditorPassword)} :
                IF d.st # "value" THEN FinishRaise(fs, l, d.err)
                ELSE \E cipher \in EditorCiphers, salt \in Salts :
                     \E new_ciphertext \in {VaultLib_encrypt(d.val[4], cipher,
                                                             new_password, salt)} :
                     \E l2 \in {[l EXCEPT !.hasplain = TRUE, !.plain = d.val[4],
                                          !.cipher_in = d.val[2]]} :
                       IF new_ciphertext.st # "value"
                       THEN FinishRaise(fs, l2, new_ciphertext.err)
                       ELSE \E sh \in ShredEnv :
                              rekey_after_write(
                                  write_data(fs, new_ciphertext.val, filename, TRUE, sh),
                                  l2, filename, fs[filename])

Next ==
    \/ \E o \in {"", "out"} : encrypt_file("target", o)
    \/ \E o \in {"", "out"} : decrypt_file("target", o)
    \/ create_file("target")
    \/ edit_file("target")
    \/ editor_raises
    \/ \E choice \in EditorChoices : editor_returns(choice)
    \/ shuffle_remove
    \/ shuffle_move
    \/ shuffle_perm
    \/ \E q \in Passwords : rekey_file("target", q)

Spec == Init /\ [][Next]_vars

(***************************************************************************)
(* VaultLib on its own: encrypt, then decrypt what came out, or what came  *)
(* out with one byte altered, or a file written by an earlier release.     *)
(***************************************************************************)
\* the bytes plaintexts are made of: a letter and the newline
PlainBytes == {104, 10}

BoundedSeqs(S, n) == UNION {[1..k -> S] : k \in 0..n}

\* the inputs of encrypt: short plaintexts, and inputs that start with the header
LibPlaintexts ==
    BoundedSeqs(PlainBytes, MaxPlainLen) \cup {b_HEADER, b_HEADER \o <<59, 104>>}

\* a cipher name outside CIPHER_WHITELIST
b_Unknown == <<88>>

LibCipherNames == {NoCipherName, b_AES, b_AES256, b_Unknown}

LibSalts == {SaltA, SaltB}

\* the length of the header line that _add_vault_header writes, newline included
HeaderLineLen == Len(add_vault_header(b_AES256, VaultAES256_version, <<>>))

\* where a byte of the body is altered (offsets into the body: its first
\* characters, the middle of the mac, the line break, the last characters)
\* and what is put there: 'A', 'B', '!' and a newline
TamperOffsets == {1, 45, 81, 87, 88}

TamperBytes == {65, 66, 33, 10}

InitLib ==
    /\ euid = 1000
    /\ fs = [p \in Paths |-> NoFile]
    /\ pc = "idle"
    /\ ctx = NoCtx
    /\ last = NoLast
    /\ nops = 0
    /\ lib \in {NoLib} \cup
               {[NoLib EXCEPT !.phase = "encrypted", !.data = t, !.password = q,
                              !.legacy = TRUE, !.blob = LegacyAES256Blob(t, q, SaltA),
                              !.enc = [st |-> "value", val |-> <<>>, err |-> "",
                                       cipher |-> b_AES256]] :
                   t \in BoundedSeqs(PlainBytes, MaxPlainLen), q \in Passwords}

\* VaultLib(password).encrypt(data, cipher_name), os.urandom giving salt
lib_encrypt(data, cipher_name, password, salt) ==
    /\ lib.phase = ""
    /\ \E enc \in {VaultLib_encrypt(data, cipher_name, password, salt)} :
         lib' = [lib EXCEPT !.phase = "encrypted", !.data = data,
                            !.password = password, !.cipher_name = cipher_name,
                            !.enc = enc, !.blob = enc.val]
    /\ UNCHANGED <<fs, euid, pc, ctx, last, nops>>

\* somebody alters one byte of the body of the armoured text
lib_tamper(offset, byte) ==
    /\ lib.phase = "encrypted"
    /\ lib.enc.st = "value"
    /\ HeaderLineLen + offset <= Len(lib.blob)
    /\ lib.blob[HeaderLineLen + offset] # byte
    /\ lib' = [lib EXCEPT !.phase = "tampered", !.tampered = TRUE,
                          !.blob = [lib.blob EXCEPT ![HeaderLineLen + offset] = byte]]
    /\ UNCHANGED <<fs, euid, pc, ctx, last, nops>>

\* VaultLib(password).decrypt(blob)
lib_decrypt(password) ==
    /\ lib.phase \in {"encrypted", "tampered"}
    /\ lib.enc.st = "value"
    /\ lib' = [lib EXCEPT !.phase = "decrypted", !.decpw = password,
                          !.dec = VaultLib_decrypt(lib.blob, password)]
    /\ UNCHANGED <<fs, euid, pc, ctx, last, nops>>

NextLib ==
    \/ \E data \in LibPlaintexts, cipher_name \in LibCipherNames,
          password \in Passwords, salt \in LibSalts :
         lib_encrypt(data, cipher_name, password, salt)
    \/ \E offset \in TamperOffsets, byte \in TamperBytes : lib_tamper(offset, byte)
    \/ \E password \in Passwords : lib_decrypt(password)

SpecLib == InitLib /\ [][NextLib]_vars

(***************************************************************************)
(* VaultLib._parse_vault_header on its own, over header lines of every     *)
(* shape: first field, container version, number of fields, body or none.  *)
(***************************************************************************)
\* the decimal digits of a natural number below 100
DecBytes(n) == IF n < 10 THEN <<48 + n>> ELSE <<48 + (n \div 10), 48 + (n % 10)>>

\* the container versions tried, as <<major, minor>>
HeaderVersions == {<<1, 2>>, <<1, 10>>, <<2, 0>>, <<1, 1>>, <<1, 0>>, <<0, 9>>}

\* the text of a version: b'1.10' for <<1, 10>>
VersionBytes(v) == DecBytes(v[1]) \o <<46>> \o DecBytes(v[2])

\* what stands in field 0: the vault marker, or something else
HeaderFirstFields == {b_HEADER, <<36, 86, 65, 85, 76, 84>>}

\* field k (counted from 0) of a header line with the given first field
\* and version: then the cipher name, the cipher version, and a surplus field
HeaderField(first, v, k) ==
    IF k = 0 THEN first
    ELSE IF k = 1 THEN VersionBytes(v)
    ELSE IF k = 2 THEN b_AES256
    ELSE IF k = 3 THEN <<49, 46, 50>>
    ELSE <<120>>

RECURSIVE JoinFields(_, _, _, _)
\* b';'.join of the fields k .. n-1
JoinFields(first, v, k, n) ==
    IF k >= n THEN <<>>
    ELSE (IF k = 0 THEN <<>> ELSE <<59>>)
             \o HeaderField(first, v, k) \o JoinFields(first, v, k + 1, n)

\* the data given to _parse_vault_header
HeaderData(first, v, n, hasbody) ==
    JoinFields(first, v, 0, n) \o (IF hasbody THEN <<10, 97, 98>> ELSE <<>>)

NoParsed == [st |-> "", val |-> <<>>, err |-> "", aes |-> 0]

InitHeader ==
    /\ euid = 1000
    /\ fs = [p \in Paths |-> NoFile]
    /\ pc = "idle"
    /\ ctx = NoCtx
    /\ last = NoLast
    /\ nops = 0
    /\ \E first \in HeaderFirstFields, v \in HeaderVersions,
          n \in 1..MaxHeaderFields, hasbody \in BOOLEAN :
         lib = [phase |-> "header", first |-> first, version |-> v, nfields |-> n,
                hasbody |-> hasbody, data |-> HeaderData(first, v, n, hasbody),
                parsed |-> NoParsed]

\* VaultLib._parse_vault_header(data)
parse_header ==
    /\ lib.phase = "header"
    /\ lib' = [lib EXCEPT !.phase = "parsed", !.parsed = parse_vault_header(lib.data)]
    /\ UNCHANGED <<fs, euid, pc, ctx, last, nops>>

NextHeader == parse_header

SpecHeader == InitHeader /\ [][NextHeader]_vars

(***************************************************************************)
(* The properties.                                                         *)
(***************************************************************************)
\* a VaultEditor call has ended and last is its record
Ended(ops) == pc = "idle" /\ last.op \in ops

\* the header line of a file written by this release
b_HeaderLine ==
    b_HEADER \o <<59, 49, 46, 50, 59, 65, 69, 83, 50, 53, 54, 59, 49, 46, 50, 10>>

\* the plaintext component of what decrypt returned, <<-1>> when it raised
PlainOrNo(d) == IF d.st = "value" THEN d.val[4] ELSE <<-1>>

\* the plaintext VaultLib(password).decrypt takes out of data
PlaintextOf(data, password) == PlainOrNo(VaultLib_decrypt(data, password))

\* mode, uid and gid of a are those of b
SamePerm(a, b) == a.mode = b.mode /\ a.uid = b.uid /\ a.gid = b.gid

\* C1: when a create_file or edit_file call has ended, however it ended, the
\* temp file it allocated no longer exists (the runs in which the fallback
\* shred divides by zero are set aside: the call fails without them too)
C1_TempFileGone ==
    Ended({"create_file", "edit_file"}) /\ last.tmp # ""
        /\ last.err # "ZeroDivisionError"
        => ~fs[last.tmp].exists

StoredParts(message, version) ==
    IF version = <<49, 46, 49>>
    THEN IF ~unhexlifyOk(message) THEN <<>>
         ELSE LET parts == SplitMax(unhexlify(message), 10, 2)
              IN  IF Len(parts) # 3 \/ \E i \in 1..Len(parts) : ~unhexlifyOk(parts[i])
                  THEN <<>>
                  ELSE <<unhexlify(parts[1]), unhexlify(parts[2]), unhexlify(parts[3])>>
    ELSE IF ~b64decodeOk(message) THEN <<>>
         ELSE LET m == b64decode(message)
              IN  <<Slice(m, 0, 32), Slice(m, 32, 64), SliceFrom(m, 64)>>

\* blob is an AES256 blob whose stored mac is not the HMAC-SHA256 of its
\* ciphertext under the mac key that password and the stored salt give
MacDiffers(blob, password) ==
    LET h == parse_vault_header(blob)
    IN  /\ h.st = "value"
        /\ h.val[2] = b_AES256
        /\ h.val[5]
        /\ LET p == StoredParts(RemoveByte(h.val[4], 10), h.val[3])
           IN  /\ p # <<>>
               /\ p[2] # HMAC_SHA256(
                             gen_key_initctr(password, p[1],
                                             h.val[3] = <<49, 46, 49>>).key2,
                             p[3])

\* C3: decrypt of an AES256 blob whose stored mac differs from the computed
\* one raises 'Decryption failed', returns no plaintext, and AES-CTR has not
\* run
C3_MacMismatchFails ==
    lib.phase = "decrypted" /\ MacDiffers(lib.blob, lib.decpw)
        => /\ lib.dec.st = "raise"
           /\ lib.dec.err = ErrDecryptionFailed
           /\ lib.dec.val = <<>>
           /\ lib.dec.aes = 0

C3_Witness ==
    /\ lib.phase = "decrypted"
    /\ lib.tampered /\ ~lib.legacy
    /\ lib.decpw = lib.password
    /\ lib.data # <<>>
    /\ MacDiffers(lib.blob, lib.decpw)

\* C4: after edit_file on a target of a write-set cipher, the editor having
\* left the temp file equal to the plaintext, the target is as it was before
\* and the temp file is gone
C4_UnchangedSaveKeepsTarget ==
    Ended({"edit_file"}) /\ last.edited
        /\ last.cipher_in \in CIPHER_WRITE_WHITELIST
        /\ last.tmpdata = last.plain
        => /\ fs[last.filename] = last.pre[last.filename]
           /\ ~fs[last.tmp].exists

\* C5: after edit_file on a target of a cipher outside the write set, the
\* editor having left the content unchanged, the target has been replaced,
\* its header line is $ANSIBLE_VAULT;1.2;AES256;1.2 and it decrypts to the
\* same plaintext
C5_LegacyTargetMigrated ==
    Ended({"edit_file"}) /\ last.edited
        /\ last.cipher_in \notin CIPHER_WRITE_WHITELIST
        /\ last.tmpdata = last.plain
        => /\ fs[last.filename].exists
           /\ fs[last.filename].data # last.pre[last.filename].data
           /\ StartsWith(fs[last.filename].data, b_HeaderLine)
           /\ PlaintextOf(fs[last.filename].data, EditorPassword) = last.plain

\* C6: after decrypt_file the output path holds exactly the plaintext
C6_DecryptFileWritesPlaintext ==
    Ended({"decrypt_file"}) /\ last.st = "ok"
        => fs[last.dest].data = last.plain

\* C7: an operation that has rewritten an existing target in place leaves
\* its mode, uid and gid as they were
C7_ModeOwnerKept ==
    Ended({"encrypt_file", "decrypt_file", "edit_file", "rekey_file"})
        /\ last.st = "ok"
        /\ last.dest = last.filename
        /\ last.pre[last.dest].exists
        /\ fs[last.dest].data # last.pre[last.dest].data
        => SamePerm(fs[last.dest], last.pre[last.dest])

\* C8: after rekey_file(filename, Q') has succeeded on a file that held P
\* under Q # Q', the file decrypts to P under Q', decrypt under Q raises
\* 'Decryption failed', and mode, uid and gid are as before
C8_Rekey ==
    Ended({"rekey_file"}) /\ last.st = "ok" /\ last.newpw # EditorPassword
        => /\ PlaintextOf(fs[last.filename].data, last.newpw) = last.plain
           /\ VaultLib_decrypt(fs[last.filename].data, EditorPassword)
                  = Raise(ErrDecryptionFailed)
           /\ SamePerm(fs[last.filename], last.pre[last.filename])

C8_Witness ==
    /\ Ended({"rekey_file"}) /\ last.st = "ok"
    /\ last.newpw = OtherPassword
    /\ last.plain # <<>>
    /\ last.pre[last.filename].mode = MkstempMode
    /\ last.pre[last.filename].uid # euid

\* C9: create_file on an existing target raises the 'exists' error, leaves
\* the target as it was and runs no editor; it creates the target only when
\* the editor saved a non-empty text
C9_CreateOnlyNonEmpty ==
    Ended({"create_file"})
        => /\ last.pre[last.filename].exists
                => /\ last.st = "raise" /\ last.err = ErrExists
                   /\ fs[last.filename] = last.pre[last.filename]
                   /\ last.tmp = "" /\ ~last.edited
           /\ fs[last.filename] # last.pre[last.filename]
                => /\ ~last.pre[last.filename].exists
                   /\ last.edited /\ last.tmpdata # <<>>

\* C10: whatever the cipher_name, encrypt of an input that does not start
\* with the header runs the AES256 cipher and returns a text that starts with
\* the line $ANSIBLE_VAULT;1.2;AES256;1.2; an input that starts with the
\* header is refused with 'input is already encrypted' and no cipher runs
C10_EncryptIsAES256 ==
    lib.phase # "" /\ ~lib.legacy
        => IF StartsWith(lib.data, b_HEADER)
           THEN /\ lib.enc.st = "raise"
                /\ lib.enc.err = ErrAlreadyEncrypted
                /\ lib.enc.cipher = <<>>
           ELSE /\ lib.enc.st = "value"
                /\ lib.enc.cipher = b_AES256
                /\ StartsWith(lib.enc.val, b_HeaderLine)

C10_Witness ==
    /\ lib.phase = "encrypted" /\ ~lib.legacy
    /\ lib.cipher_name = b_AES
    /\ lib.data = <<104>>
    /\ lib.enc.st = "value"

\* the errors that report a malformed header
ErrMalformed == {ErrMalformed4, ErrMalformed3}

\* C11: _parse_vault_header raises the 'not an encrypted vault file' error
\* exactly when field 0 is not $ANSIBLE_VAULT; a header whose field 0 is
\* $ANSIBLE_VAULT and whose number of fields is right for no version (fewer
\* than 3, more than 4) is reported as malformed
C11_NotVaultOnlyForField0 ==
    lib.phase = "parsed"
        => /\ (lib.parsed.st = "raise" /\ lib.parsed.err = ErrNotVault)
                  <=> lib.first # b_HEADER
           /\ lib.first = b_HEADER /\ lib.nfields \notin {3, 4}
                  => lib.parsed.st = "raise" /\ lib.parsed.err \in ErrMalformed

\* v >= w for versions <<major, minor>>, the components compared as integers
VersionGeq(v, w) == v[1] > w[1] \/ (v[1] = w[1] /\ v[2] >= w[2])

\* the header was accepted with the given cipher version
ParsedWithCipherVersion(b_version) ==
    /\ lib.parsed.st = "value"
    /\ lib.parsed.val[1] = VersionBytes(lib.version)
    /\ lib.parsed.val[3] = b_version

\* the header was rejected with the given error
ParseRaised(e) == lib.parsed.st = "raise" /\ lib.parsed.err = e

\* C12: for a header of at least 3 fields whose field 0 is $ANSIBLE_VAULT,
\* a container version >= 1.2 in integer order (1.2, 1.10, 2.0) requires
\* exactly 4 fields and takes the cipher version from field 3; a lower one
\* (1.1, 1.0, 0.9) requires exactly 3 fields and the cipher version is the
\* container version
C12_VersionComparedAsIntegers ==
    lib.phase = "parsed" /\ lib.first = b_HEADER /\ lib.nfields >= 3
        => IF VersionGeq(lib.version, <<1, 2>>)
           THEN IF lib.nfields = 4
                THEN ParsedWithCipherVersion(HeaderField(lib.first, lib.version, 3))
                ELSE ParseRaised(ErrMalformed4)
           ELSE IF lib.nfields = 3
                THEN ParsedWithCipherVersion(VersionBytes(lib.version))
                ELSE ParseRaised(ErrMalformed3)

\* C13: with the shred utility absent or failing, no _shred_file call made
\* by an operation raises out of the overwrite passes (no division by a
\* zero chunk length, no failed assertion on the bytes written), and the
\* temporary file _edit_file_helper shreds when the editor fails is unlinked
C13_ShredCompletes ==
    pc = "idle" /\ last.op # ""
        => /\ last.err \notin {"ZeroDivisionError", "AssertionError"}
           /\ last.op \in {"create_file", "edit_file"} /\ last.err = "OSError"
                  => last.tmp # "" /\ ~fs[last.tmp].exists

\* C14: while edit_file is saving over an existing target, the target exists
\* in every state of the operation and holds either its complete old content
\* or the complete new vault text of the edited plaintext
C14_ReplaceIsAtomic ==
    pc # "idle" /\ ctx.op = "edit_file" /\ ctx.pre[ctx.filename].exists
        => /\ fs[ctx.filename].exists
           /\ \/ fs[ctx.filename].data = ctx.pre[ctx.filename].data
              \/ /\ pc = "shuffle_perm"
                 /\ StartsWith(fs[ctx.filename].data, b_HeaderLine)
                 /\ PlaintextOf(fs[ctx.filename].data, EditorPassword) = ctx.tmpdata

=============================================================================
